---- MODULE Spec2Model ----
(***************************************************************************)
(* FredIRC: the MessageProcessor (fredirc/processor.py) and the Connection *)
(* (fredirc/connection.py).                                                *)
(*                                                                         *)
(* Two state machines share this module.  Spec drives the                  *)
(* MessageProcessor: one action per server command, each the whole of      *)
(* MessageProcessor.process for a message of that command.  ConnSpec       *)
(* drives the Connection: run, connection_made, data_received,             *)
(* eof_received, connection_lost, terminate, send_message and the event    *)
(* loop leaving run_forever.                                               *)
(***************************************************************************)
EXTENDS Integers, Sequences, FiniteSets, TLC

\* ---------------------------------------------------------------- bounds
\* longest operator_in / has_voice_in list the model lets the code build
MaxFlags == 2
\* most shutdown callbacks the model counts
MaxShutdowns == 2
\* most bytes of one block handed to data_received
MaxBlock == 2
\* most bytes received over the life of the connection
MaxStream == 3
\* most writes to the transport the model records
MaxSends == 1
\* the NAMREPLY fragments of one handshake are counted up to this
MaxFrags == 2

\* ------------------------------------------------------------- universes
Nicks == {"me", "bob"}
\* "x" is a name without a channel prefix character
ChanNames == {"#a", "x"}
NoNick == ""

\* ------------------------------------------------------------- variables
VARIABLES
    nick,            \* ClientState.nick
    registered,      \* ClientState.registered
    server,          \* ClientState.server
    channels,        \* ClientState.channels: channel name -> set of nicks
    operator_in,     \* ClientState.operator_in (a list)
    has_voice_in,    \* ClientState.has_voice_in (a list)
    pending,         \* MessageProcessor._pending_channel_info
    events,          \* Handler callbacks made by the last process() call
    raised,          \* exception that escaped the last process() call
    hs,              \* per channel: progress of the join handshake
    last,            \* the message of the last process() call
    parted,          \* channels with an own-part / own-kick event and no
                     \* self-JOIN processed since
    trace,           \* which history a run keeps: "handshake" (hs and
                     \* parted) or "message" (last and events)
    loop,            \* the asyncio event loop of the Connection's thread
    transport,       \* Connection._transport
    shutdowns,       \* number of connection_shutdown() invocations
    initiated,       \* number of connection_initiation() invocations
    received,        \* all bytes given to data_received, in order
    dispatched,      \* lines handed to message_dispatching, in order
    written,         \* byte strings written to the transport
    dispatch_failed, \* some message_dispatching call raised
    trigger,         \* first shutdown trigger delivered while connected
    lastcall,        \* the last Connection operation and the state it saw
    late_dispatch    \* a line was dispatched after the shutdown callback fired

procvars == <<nick, registered, server, channels, operator_in, has_voice_in,
              pending, events, raised, hs, last, parted, trace>>
connvars == <<loop, transport, shutdowns, initiated, received, dispatched,
              written, dispatch_failed, trigger, lastcall, late_dispatch>>
vars == <<nick, registered, server, channels, operator_in, has_voice_in,
          pending, events, raised, hs, last, parted, trace,
          loop, transport, shutdowns, initiated, received, dispatched,
          written, dispatch_failed, trigger, lastcall, late_dispatch>>

\* ------------------------------------------------------- dict / list ops
\* d[k] = v on a Python dict
Put(d, k, v) == [x \in (DOMAIN d) \cup {k} |-> IF x = k THEN v ELSE d[x]]
\* del d[k] / d.pop(k) on a Python dict
Del(d, k) == [x \in (DOMAIN d) \ {k} |-> d[x]]
EmptyDict == [x \in {} |-> {}]

RECURSIVE IndexOf(_, _, _)
IndexOf(s, x, i) ==
    IF i > Len(s) THEN 0
    ELSE IF s[i] = x THEN i ELSE IndexOf(s, x, i + 1)

\* list.remove(x): drops the first occurrence (the caller checks membership)
ListRemove(s, x) ==
    LET i == IndexOf(s, x, 1)
    IN  SubSeq(s, 1, i - 1) \o SubSeq(s, i + 1, Len(s))

ListElems(s) == {s[i] : i \in 1..Len(s)}

\* ------------------------------------------------------------- tokenizer
\* prefix of a user message, nick!user@host
UserPrefix(n) == [nick |-> n, user |-> "u", host |-> "h"]
parse_user_prefix(p) == <<p.nick, p.user, p.host>>
\* a user message without a prefix (prefix is None)
NoPrefix == [nick |-> NoNick, user |-> "", host |-> ""]

\* str.startswith('#') or '+' or '&' on the names of the model
StartsWithChannelPrefix(c) == c \in {"#a"}

\* ChannelInfo(channel): no nicks yet
ChannelInfo(c) == {}
add_nicks(info, ns) == info \cup ns
remove_nick(info, n) == info \ {n}


\* target descriptor of parse_message_target for one name
parse_message_target(t) ==
    IF StartsWithChannelPrefix(t) THEN [channel |-> t, nick |-> NoNick]
    ELSE [channel |-> "", nick |-> t]

\* name list of a NAMREPLY: params = <<target, channel, nicks>>
parse_name_list(params) == [channel_name |-> params[2], nicks |-> params[3]]

\* ------------------------------------------------------ processor state
\* the state process() reads and writes, as one record
Cur == [nick |-> nick, registered |-> registered, server |-> server,
        channels |-> channels, operator_in |-> operator_in,
        has_voice_in |-> has_voice_in, pending |-> pending]

\* result of a handler: the state it leaves, the Handler callbacks it made
\* and the exception it ended with ("none" when it returned)
Ok(S, ev) == [s |-> S, ev |-> ev, exc |-> "none"]
Raise(S, ev, e) == [s |-> S, ev |-> ev, exc |-> e]

\* ------------------------------------------------------------- handlers
\* process_join without the test that the channel is not yet occupied
process_join_unchecked(S, m) ==
    IF Len(m.params) = 0 THEN Raise(S, <<>>, "IndexError")
    ELSE
    LET n == parse_user_prefix(m.prefix)[1]
        channel == m.params[1]
    IN  IF S.nick = n
        THEN Ok([S EXCEPT !.pending = Put(@, channel, ChannelInfo(channel))], <<>>)
        ELSE IF channel \notin DOMAIN S.channels
             THEN Raise(S, <<>>, "KeyError")
             ELSE Ok([S EXCEPT !.channels[channel] = add_nicks(@, {n})],
                     << <<"handle_join", channel, n>> >>)

\* process_join entering the channel and announcing it at the self-JOIN
process_join_announcing(S, m) ==
    IF Len(m.params) = 0 THEN Raise(S, <<>>, "IndexError")
    ELSE
    LET n == parse_user_prefix(m.prefix)[1]
        channel == m.params[1]
    IN  IF S.nick = n
        THEN IF channel \notin DOMAIN S.channels
             THEN Ok([S EXCEPT !.channels = Put(@, channel, ChannelInfo(channel))],
                     << <<"handle_own_join", channel>> >>)
             ELSE Ok(S, <<>>)
        ELSE IF channel \notin DOMAIN S.channels
             THEN Raise(S, <<>>, "KeyError")
             ELSE Ok([S EXCEPT !.channels[channel] = add_nicks(@, {n})],
                     << <<"handle_join", channel, n>> >>)

process_join(S, m) ==
    IF Len(m.params) = 0 THEN Raise(S, <<>>, "IndexError")
    ELSE
    LET n == parse_user_prefix(m.prefix)[1]
        channel == m.params[1]
    IN  IF S.nick = n
        THEN IF channel \notin DOMAIN S.channels
             THEN Ok([S EXCEPT !.pending = Put(@, channel, ChannelInfo(channel))], <<>>)
             ELSE Ok(S, <<>>)
        ELSE IF channel \notin DOMAIN S.channels
             THEN Raise(S, <<>>, "KeyError")
             ELSE Ok([S EXCEPT !.channels[channel] = add_nicks(@, {n})],
                     << <<"handle_join", channel, n>> >>)

process_part(S, m) ==
    IF Len(m.params) = 0 THEN Raise(S, <<>>, "IndexError")
    ELSE
    LET n == parse_user_prefix(m.prefix)[1]
        channel == m.params[1]
    IN  IF S.nick = n
        THEN Ok([S EXCEPT !.channels =
                    IF channel \in DOMAIN @ THEN Del(@, channel) ELSE @],
                << <<"handle_own_part", channel>> >>)
        ELSE IF channel \notin DOMAIN S.channels
             THEN Raise(S, <<>>, "KeyError")
             ELSE Ok([S EXCEPT !.channels[channel] = remove_nick(@, n)],
                     << <<"handle_part", channel, n,
                          IF Len(m.params) > 1 THEN m.params[2] ELSE "None">> >>)

\* process_kick reporting a KICK with fewer than two parameters
process_kick_reporting(S, m) ==
    IF Len(m.params) < 2 THEN Raise(S, <<>>, "MessageHandlingError")
    ELSE
    LET channel == m.params[1]
        n == m.params[2]
        initiator == parse_user_prefix(m.prefix)[1]
        reason == IF Len(m.params) > 2 THEN m.params[3] ELSE "None"
    IN  IF n = S.nick
        THEN Ok([S EXCEPT !.channels =
                    IF channel \in DOMAIN @ THEN Del(@, channel) ELSE @],
                << <<"handle_own_kick", channel, initiator, reason>> >>)
        ELSE IF channel \notin DOMAIN S.channels
             THEN Raise(S, <<>>, "KeyError")
             ELSE Ok([S EXCEPT !.channels[channel] = remove_nick(@, n)],
                     << <<"handle_kick", channel, n, initiator, reason>> >>)

process_kick(S, m) ==
    IF Len(m.params) < 2 THEN Ok(S, <<>>)
    ELSE
    LET channel == m.params[1]
        n == m.params[2]
        initiator == parse_user_prefix(m.prefix)[1]
        reason == IF Len(m.params) > 2 THEN m.params[3] ELSE "None"
    IN  IF n = S.nick
        THEN Ok([S EXCEPT !.channels =
                    IF channel \in DOMAIN @ THEN Del(@, channel) ELSE @],
                << <<"handle_own_kick", channel, initiator, reason>> >>)
        ELSE IF channel \notin DOMAIN S.channels
             THEN Raise(S, <<>>, "KeyError")
             ELSE Ok([S EXCEPT !.channels[channel] = remove_nick(@, n)],
                     << <<"handle_kick", channel, n, initiator, reason>> >>)

\* process_nick without the swap of the channel memberships
process_nick_unswapped(S, m) ==
    IF Len(m.params) = 0 THEN Raise(S, <<>>, "IndexError")
    ELSE
    LET old_nick == parse_user_prefix(m.prefix)[1]
        new_nick == m.params[1]
    IN  IF old_nick = S.nick
        THEN Ok([S EXCEPT !.nick = new_nick],
                << <<"handle_own_nick_change", old_nick, new_nick>> >>)
        ELSE Ok(S, << <<"handle_nick_change", old_nick, new_nick>> >>)

process_nick(S, m) ==
    IF Len(m.params) = 0 THEN Raise(S, <<>>, "IndexError")
    ELSE
    LET old_nick == parse_user_prefix(m.prefix)[1]
        new_nick == m.params[1]
        swapped == [c \in DOMAIN S.channels |->
                      IF old_nick \in S.channels[c]
                      THEN add_nicks(remove_nick(S.channels[c], old_nick), {new_nick})
                      ELSE S.channels[c]]
    IN  IF old_nick = S.nick
        THEN Ok([S EXCEPT !.channels = swapped, !.nick = new_nick],
                << <<"handle_own_nick_change", old_nick, new_nick>> >>)
        ELSE Ok([S EXCEPT !.channels = swapped],
                << <<"handle_nick_change", old_nick, new_nick>> >>)


\* parse_message_target on a target list: one descriptor per name
parse_message_targets(ts) == [i \in 1..Len(ts) |-> parse_message_target(ts[i])]

\* the events of _process_privmsg's loop over the targets
RECURSIVE privmsg_loop(_, _, _, _, _)
privmsg_loop(S, targets, msg, sender, i) ==
    IF i > Len(targets) THEN <<>>
    ELSE (IF targets[i].nick # NoNick /\ targets[i].nick = S.nick
          THEN << <<"handle_private_message", msg, sender>> >>
          ELSE IF targets[i].channel # "" /\ targets[i].channel \in DOMAIN S.channels
          THEN << <<"handle_channel_message", targets[i].channel, msg, sender>> >>
          ELSE <<>>)
         \o privmsg_loop(S, targets, msg, sender, i + 1)

\* process_privmsg without the test that the sender is not the client
process_privmsg_echoing(S, m) ==
    IF Len(m.params) # 2 THEN Raise(S, <<>>, "MessageHandlingError")
    ELSE
    LET sender == IF m.prefix # NoPrefix THEN parse_user_prefix(m.prefix)[1] ELSE NoNick
    IN  IF sender # NoNick
        THEN Ok(S, privmsg_loop(S, parse_message_targets(m.params[1]),
                                m.params[2], sender, 1))
        ELSE Ok(S, <<>>)

process_privmsg(S, m) ==
    IF Len(m.params) # 2 THEN Raise(S, <<>>, "MessageHandlingError")
    ELSE
    LET sender == IF m.prefix # NoPrefix THEN parse_user_prefix(m.prefix)[1] ELSE NoNick
    IN  IF sender # NoNick /\ sender # S.nick
        THEN Ok(S, privmsg_loop(S, parse_message_targets(m.params[1]),
                                m.params[2], sender, 1))
        ELSE Ok(S, <<>>)

\* one mode change of _process_channel_mode's loop body
apply_mode_change(S, channel, mc, initiator) ==
    IF mc.mode = "o"
    THEN IF Len(mc.params) = 0 THEN Raise(S, <<>>, "IndexError")
         ELSE LET user == mc.params[1]
              IN  IF mc.added
                  THEN IF user = S.nick
                       THEN Ok([S EXCEPT !.operator_in = Append(@, channel)],
                               << <<"handle_own_got_op", channel, initiator>> >>)
                       ELSE Ok(S, << <<"handle_got_op", channel, user, initiator>> >>)
                  ELSE IF user = S.nick
                       THEN IF channel \notin ListElems(S.operator_in)
                            THEN Raise(S, <<>>, "ValueError")
                            ELSE Ok([S EXCEPT !.operator_in = ListRemove(@, channel)],
                                    << <<"handle_own_lost_op", channel, initiator>> >>)
                       ELSE Ok(S, << <<"handle_lost_op", channel, user, initiator>> >>)
    ELSE IF mc.mode = "v"
    THEN IF Len(mc.params) = 0 THEN Raise(S, <<>>, "IndexError")
         ELSE LET user == mc.params[1]
              IN  IF mc.added
                  THEN IF user = S.nick
                       THEN Ok([S EXCEPT !.has_voice_in = Append(@, channel)],
                               << <<"handle_own_got_voice", channel, initiator>> >>)
                       ELSE Ok(S, << <<"handle_got_voice", channel, user, initiator>> >>)
                  ELSE IF user = S.nick
                       THEN IF channel \notin ListElems(S.has_voice_in)
                            THEN Raise(S, <<>>, "ValueError")
                            ELSE Ok([S EXCEPT !.has_voice_in = ListRemove(@, channel)],
                                    << <<"handle_own_lost_voice", channel, initiator>> >>)
                       ELSE Ok(S, << <<"handle_lost_voice", channel, user, initiator>> >>)
    ELSE Ok(S, <<>>)

\* parse_channel_mode_params: the mode changes a MODE message carries
parse_channel_mode_params(m) == m.mode_changes

RECURSIVE mode_loop(_, _, _, _, _)
mode_loop(R, channel, changes, initiator, i) ==
    IF i > Len(changes) \/ R.exc # "none" THEN R
    ELSE LET r == apply_mode_change(R.s, channel, changes[i], initiator)
         IN  mode_loop([s |-> r.s, ev |-> R.ev \o r.ev, exc |-> r.exc],
                       channel, changes, initiator, i + 1)

process_channel_mode(S, channel, m, initiator) ==
    mode_loop(Ok(S, <<>>), channel, parse_channel_mode_params(m), initiator, 1)

\* process_mode treating every target as a channel
process_mode_any_target(S, m) ==
    IF Len(m.params) = 0 THEN Raise(S, <<>>, "IndexError")
    ELSE process_channel_mode(S, m.params[1], m, parse_user_prefix(m.prefix)[1])

process_mode(S, m) ==
    IF Len(m.params) = 0 THEN Raise(S, <<>>, "IndexError")
    ELSE
    LET target == parse_message_target(m.params[1])
        initiator == parse_user_prefix(m.prefix)[1]
    IN  IF target.channel # ""
        THEN process_channel_mode(S, target.channel, m, initiator)
        ELSE Raise(S, <<>>, "MessageHandlingError")

\* numeric codes of fredirc.messages.Rpl
RplWelcome == 1
RplNamReply == 353
RplEndOfNames == 366

\* process_numeric_reply where a NAMREPLY fragment replaces the nicks
\* gathered so far
process_numeric_reply_overwriting(S, num, m) ==
    LET resp == << <<"handle_response", num>> >>
    IN  IF num = RplWelcome
        THEN IF Len(m.params) = 0
             THEN Raise([S EXCEPT !.registered = TRUE, !.server = m.prefix],
                        resp, "IndexError")
             ELSE Ok([S EXCEPT !.registered = TRUE, !.server = m.prefix,
                               !.nick = m.params[1]],
                     resp \o << <<"handle_register">> >>)
        ELSE IF num = RplNamReply
        THEN IF Len(m.params) < 3 THEN Raise(S, resp, "ParserError")
             ELSE LET channel == parse_name_list(m.params)
                  IN  IF channel.channel_name \in DOMAIN S.pending
                      THEN Ok([S EXCEPT !.pending[channel.channel_name] =
                                            channel.nicks], resp)
                      ELSE Ok(S, resp)
        ELSE IF num = RplEndOfNames
        THEN IF Len(m.params) < 2 THEN Raise(S, resp, "IndexError")
             ELSE LET channel == m.params[2]
                  IN  IF StartsWithChannelPrefix(channel) /\ channel \in DOMAIN S.pending
                      THEN Ok([S EXCEPT !.pending = Del(@, channel),
                                        !.channels = Put(@, channel, S.pending[channel])],
                              resp \o << <<"handle_own_join", channel>> >>)
                      ELSE Ok(S, resp)
        ELSE Ok(S, resp)

process_numeric_reply(S, num, m) ==
    LET resp == << <<"handle_response", num>> >>
    IN  IF num = RplWelcome
        THEN IF Len(m.params) = 0
             THEN Raise([S EXCEPT !.registered = TRUE, !.server = m.prefix],
                        resp, "IndexError")
             ELSE Ok([S EXCEPT !.registered = TRUE, !.server = m.prefix,
                               !.nick = m.params[1]],
                     resp \o << <<"handle_register">> >>)
        ELSE IF num = RplNamReply
        THEN IF Len(m.params) < 3 THEN Raise(S, resp, "ParserError")
             ELSE LET channel == parse_name_list(m.params)
                  IN  IF channel.channel_name \in DOMAIN S.pending
                      THEN Ok([S EXCEPT !.pending[channel.channel_name] =
                                            add_nicks(@, channel.nicks)], resp)
                      ELSE Ok(S, resp)
        ELSE IF num = RplEndOfNames
        THEN IF Len(m.params) < 2 THEN Raise(S, resp, "IndexError")
             ELSE LET channel == m.params[2]
                  IN  IF StartsWithChannelPrefix(channel) /\ channel \in DOMAIN S.pending
                      THEN Ok([S EXCEPT !.pending = Del(@, channel),
                                        !.channels = Put(@, channel, S.pending[channel])],
                              resp \o << <<"handle_own_join", channel>> >>)
                      ELSE Ok(S, resp)
        ELSE Ok(S, resp)

\* Err.ERROR_PARAMETERS: parameter names per error code
ErrorParameters ==
    [c \in {421, 433} |-> IF c = 433 THEN <<"nick", "message">>
                          ELSE <<"command", "message">>]

\* strings of error parameters are lists of words: ' '.join concatenates
RECURSIVE JoinWords(_)
JoinWords(ps) == IF ps = <<>> THEN <<>> ELSE Head(ps) \o JoinWords(Tail(ps))

\* process_numeric_error leaving the keys empty on a length mismatch
process_numeric_error_blank(S, num, m) ==
    LET params == IF m.params = <<>> THEN <<>> ELSE Tail(m.params)
    IN  IF num \notin DOMAIN ErrorParameters THEN Raise(S, <<>>, "KeyError")
        ELSE LET param_names == ErrorParameters[num]
                 names == {param_names[i] : i \in 1..Len(param_names)}
                 kwargs ==
                    IF Len(params) # Len(param_names)
                    THEN [n \in names |-> <<>>]
                    ELSE [n \in names |->
                            params[CHOOSE i \in 1..Len(param_names) :
                                       param_names[i] = n]]
             IN  Ok(S, << <<"handle_error", num, kwargs>> >>)

process_numeric_error(S, num, m) ==
    LET params == IF m.params = <<>> THEN <<>> ELSE Tail(m.params)
    IN  IF num \notin DOMAIN ErrorParameters THEN Raise(S, <<>>, "KeyError")
        ELSE LET param_names == ErrorParameters[num]
                 names == {param_names[i] : i \in 1..Len(param_names)}
                 kwargs ==
                    IF Len(params) # Len(param_names)
                    THEN [n \in names |->
                            IF n = "message" THEN JoinWords(params) ELSE <<>>]
                    ELSE [n \in names |->
                            params[CHOOSE i \in 1..Len(param_names) :
                                       param_names[i] = n]]
             IN  Ok(S, << <<"handle_error", num, kwargs>> >>)


\* int(command) for the three-digit commands of the model
NumericCommands == {"001", "002", "353", "366", "421", "433", "499", "600"}
ToInt(c) ==
    CASE c = "001" -> 1   [] c = "002" -> 2   [] c = "353" -> 353
      [] c = "366" -> 366 [] c = "421" -> 421 [] c = "433" -> 433
      [] c = "499" -> 499 [] c = "600" -> 600

\* the command dispatch of process(), before its except clauses
dispatch(S, m) ==
    IF m.command \in NumericCommands
    THEN LET numeric_reply == ToInt(m.command)
         IN  IF 0 <= numeric_reply /\ numeric_reply <= 399
             THEN process_numeric_reply(S, numeric_reply, m)
             ELSE IF 400 <= numeric_reply /\ numeric_reply <= 599
             THEN process_numeric_error(S, numeric_reply, m)
             ELSE Raise(S, <<>>, "MessageHandlingError")
    ELSE IF m.command = "PRIVMSG" THEN process_privmsg(S, m)
    ELSE IF m.command = "JOIN" THEN process_join(S, m)
    ELSE IF m.command = "PART" THEN process_part(S, m)
    ELSE IF m.command = "MODE" THEN process_mode(S, m)
    ELSE IF m.command = "KICK" THEN process_kick(S, m)
    ELSE IF m.command = "NICK" THEN process_nick(S, m)
    ELSE Raise(S, <<>>, "MessageHandlingError")

\* MessageProcessor.process: MessageHandlingError goes to the Handler as an
\* unhandled message, ParserError is logged, anything else propagates
process(S, m) ==
    LET R == dispatch(S, m)
    IN  IF R.exc = "MessageHandlingError"
        THEN [s |-> R.s, ev |-> R.ev \o << <<"handle_unhandled_message">> >>,
              exc |-> "none"]
        ELSE IF R.exc = "ParserError"
        THEN [s |-> R.s, ev |-> R.ev, exc |-> "none"]
        ELSE R


\* ------------------------------------------------- join handshake ghost
HsIdle == [nicks |-> {}, phase |-> "none", frags |-> 0, own_joins |-> 0]

OwnJoins(ev, c) ==
    Cardinality({i \in 1..Len(ev) : ev[i] = <<"handle_own_join", c>>})

\* hs[c] follows the messages self-JOIN c, NAMREPLY c ..., ENDOFNAMES c,
\* started where c is neither pending nor occupied; any other message
\* ends the sequence
HsNext(m, R) ==
    [c \in ChanNames |->
        IF /\ m.command = "JOIN" /\ Len(m.params) > 0 /\ m.params[1] = c
           /\ parse_user_prefix(m.prefix)[1] = nick
           /\ c \notin DOMAIN channels /\ c \notin DOMAIN pending
        THEN [nicks |-> {}, phase |-> "joined", frags |-> 0,
              own_joins |-> OwnJoins(R.ev, c)]
        ELSE IF /\ hs[c].phase = "joined" /\ m.command = "353"
                /\ Len(m.params) >= 3 /\ m.params[2] = c
        THEN [hs[c] EXCEPT !.nicks = @ \cup m.params[3],
                           !.frags = IF @ < MaxFrags THEN @ + 1 ELSE @,
                           !.own_joins = @ + OwnJoins(R.ev, c)]
        ELSE IF /\ hs[c].phase = "joined" /\ m.command = "366"
                /\ Len(m.params) >= 2 /\ m.params[2] = c
        THEN [hs[c] EXCEPT !.phase = "done",
                           !.own_joins = @ + OwnJoins(R.ev, c)]
        ELSE HsIdle]

\* ----------------------------------------------------- own-part ghost
\* m is a JOIN of the client's own nick for channel c
IsSelfJoin(m, c) ==
    /\ m.command = "JOIN" /\ Len(m.params) > 0 /\ m.params[1] = c
    /\ parse_user_prefix(m.prefix)[1] = nick

OwnLeaves(ev, c) ==
    {i \in 1..Len(ev) : /\ ev[i][1] \in {"handle_own_part", "handle_own_kick"}
                        /\ ev[i][2] = c}

\* c enters parted with an own-part or own-kick event for c and leaves it
\* with the next self-JOIN for c
PartedNext(m, R) ==
    {c \in ChanNames :
        \/ OwnLeaves(R.ev, c) # {}
        \/ (c \in parted /\ ~IsSelfJoin(m, c))}

\* no process() call yet
NoMessage == [params |-> <<>>, prefix |-> "", command |-> ""]

\* ------------------------------------------------------------------ Init
ClientStateInit ==
    /\ nick = NoNick
    /\ registered = FALSE
    /\ server = ""
    /\ channels = EmptyDict
    /\ operator_in = <<>>
    /\ has_voice_in = <<>>

ProcInit ==
    /\ pending = EmptyDict
    /\ events = <<>>
    /\ raised = "none"
    /\ hs = [c \in ChanNames |-> HsIdle]
    /\ last = NoMessage
    /\ parted = {}

ConnInit ==
    /\ loop = "idle"
    /\ transport = "unset"
    /\ shutdowns = 0
    /\ initiated = 0
    /\ received = <<>>
    /\ dispatched = <<>>
    /\ written = <<>>
    /\ dispatch_failed = FALSE
    /\ trigger = "none"
    /\ lastcall = [shutdowns |-> 0, op |-> "none", life |-> "IDLE", result |-> "none"]
    /\ late_dispatch = FALSE

Init == ClientStateInit /\ ProcInit /\ ConnInit /\ trace = "handshake"

\* the same program state; the run keeps the last message instead of the
\* handshake history
StepInit == ClientStateInit /\ ProcInit /\ ConnInit /\ trace = "message"

\* ------------------------------------------------------ processor steps
\* one call of MessageProcessor.process(m)
Process(m) ==
    \E R \in {process(Cur, m)} :
        /\ Len(R.s.operator_in) <= MaxFlags
        /\ Len(R.s.has_voice_in) <= MaxFlags
        /\ nick' = R.s.nick
        /\ registered' = R.s.registered
        /\ server' = R.s.server
        /\ channels' = R.s.channels
        /\ operator_in' = R.s.operator_in
        /\ has_voice_in' = R.s.has_voice_in
        /\ pending' = R.s.pending
        /\ events' = IF trace = "message" THEN R.ev ELSE events
        /\ raised' = R.exc
        /\ hs' = IF trace = "handshake" THEN HsNext(m, R) ELSE hs
        /\ parted' = IF trace = "handshake" THEN PartedNext(m, R) ELSE parted
        /\ last' = IF trace = "message" THEN m ELSE last
        /\ UNCHANGED trace
        /\ UNCHANGED connvars

Msg(p, c, ps) == [params |-> ps, prefix |-> p, command |-> c]

Initiators == {"bob"}
ModeChanges ==
    {[params |-> <<u>>, mode |-> md, added |-> a] :
        md \in {"o", "v"}, a \in BOOLEAN, u \in Nicks}
    \cup {[params |-> <<>>, mode |-> "t", added |-> TRUE],
          [params |-> <<>>, mode |-> "o", added |-> TRUE]}
ModeChange(md, a, u) == [params |-> <<u>>, mode |-> md, added |-> a]
\* a MODE message carries one change, or an operator grant followed by a
\* voice change of the same user
ModeChangeLists ==
    {<<mc>> : mc \in ModeChanges}
    \cup {<<ModeChange("o", TRUE, u), ModeChange("v", a, u)>> :
            u \in Nicks, a \in BOOLEAN}

TargetLists ==
    {<<t>> : t \in Nicks \cup {"#a"}} \cup {<<"me", "#a">>, <<"#a", "#a">>}

ProcessPrivmsg ==
    \/ \E n \in Nicks,
          ps \in {<<"#a">>} \cup {<<ts, "hello">> : ts \in TargetLists} :
           Process(Msg(UserPrefix(n), "PRIVMSG", ps))
    \/ \E n \in Nicks : Process(Msg(NoPrefix, "PRIVMSG", <<<<n>>, "hello">>))

ProcessJoin ==
    \E n \in Nicks, ps \in {<<>>} \cup {<<c>> : c \in ChanNames} :
        Process(Msg(UserPrefix(n), "JOIN", ps))

ProcessPart ==
    \E n \in Nicks, c \in ChanNames, ps \in {<<>>, <<"bye">>} :
        Process(Msg(UserPrefix(n), "PART", <<c>> \o ps))

ProcessKick ==
    \/ \E i \in Initiators, c \in ChanNames,
          ps \in {<<>>} \cup {<<n>> : n \in Nicks} \cup {<<n, "why">> : n \in Nicks} :
           Process(Msg(UserPrefix(i), "KICK", <<c>> \o ps))
    \/ \E i \in Initiators : Process(Msg(UserPrefix(i), "KICK", <<>>))

ProcessNick ==
    \E n \in Nicks, ps \in {<<>>} \cup {<<n2>> : n2 \in Nicks} :
        Process(Msg(UserPrefix(n), "NICK", ps))

ProcessMode ==
    \E i \in Initiators, t \in ChanNames \cup Nicks, mcs \in ModeChangeLists :
        /\ parse_message_target(t).channel = "" => mcs = <<ModeChange("o", TRUE, t)>>
        /\ Process([params |-> <<t>>, prefix |-> UserPrefix(i),
                    mode_changes |-> mcs, command |-> "MODE"])

ProcessWelcome ==
    \E ps \in {<<>>} \cup {<<n>> : n \in Nicks} :
        Process(Msg("srv", "001", ps))

ProcessNamReply ==
    \E c \in ChanNames, ns \in (SUBSET Nicks) \ {{}} :
        Process(Msg("srv", "353", <<nick, c, ns>>))

ProcessEndOfNames ==
    \E ps \in {<<nick>>} \cup {<<nick, c>> : c \in ChanNames} :
        Process(Msg("srv", "366", ps))

ProcessOtherNumeric ==
    \E c \in {"002", "600"} : Process(Msg("srv", c, <<nick>>))

ProcessNumericError ==
    \E c \in {"421", "433", "499"},
       ps \in {<<>>, << <<"me">> >>, << <<"me">>, <<"is">> >>,
               << <<"me">>, <<"bob">>, <<"in", "use">> >>,
               << <<"me">>, <<"bob">>, <<"in">>, <<"use">> >>} :
        /\ c = "421" => Len(ps) \in {2, 3}
        /\ c = "499" => Len(ps) = 3
        /\ Process(Msg("srv", c, ps))

ProcessUnknown == Process(Msg("srv", "NOTICE", <<nick>>))

ProcNext ==
    \/ ProcessPrivmsg
    \/ ProcessJoin
    \/ ProcessPart
    \/ ProcessKick
    \/ ProcessNick
    \/ ProcessMode
    \/ ProcessWelcome
    \/ ProcessNamReply
    \/ ProcessEndOfNames
    \/ ProcessOtherNumeric
    \/ ProcessNumericError
    \/ ProcessUnknown

Spec == Init /\ [][ProcNext]_vars

StepSpec == StepInit /\ [][ProcNext]_vars


\* ======================================================== the Connection
\* loop.is_running(): true from the start of run_until_complete until
\* run_forever returns; loop.stop() only asks the loop to return
is_running == loop \in {"running", "stopping"}

\* lifecycle of the spec, read off the loop and the transport
Life ==
    IF loop = "idle" THEN "IDLE"
    ELSE IF loop = "stopped" THEN "TERMINATED"
    ELSE IF loop = "stopping" THEN "TERMINATING"
    ELSE IF transport = "unset" THEN "CONNECTING"
    ELSE "CONNECTED"

Bytes == {"a", "LF", "BAD"}
Blocks == UNION {[1..n -> Bytes] : n \in 1..MaxBlock}

\* bytes.decode('utf-8', 'log_and_replace'): a malformed byte becomes the
\* replacement character
decode(data) ==
    [i \in 1..Len(data) |-> IF data[i] = "BAD" THEN "REPL" ELSE data[i]]

\* str.encode('utf-8'): the replacement character takes three bytes
RECURSIVE encode(_)
encode(text) ==
    IF text = <<>> THEN <<>>
    ELSE (IF Head(text) = "REPL" THEN <<"EF", "BF", "BD">> ELSE <<Head(text)>>)
         \o encode(Tail(text))

\* str.splitlines(): the text cut at its line breaks; a text that does not
\* end in a line break gives its rest as the last line
RECURSIVE split_from(_, _, _)
split_from(text, cur, lines) ==
    IF text = <<>> THEN (IF cur = <<>> THEN lines ELSE Append(lines, cur))
    ELSE IF Head(text) = "LF" THEN split_from(Tail(text), <<>>, Append(lines, cur))
    ELSE split_from(Tail(text), Append(cur, Head(text)), lines)

splitlines(text) == split_from(text, <<>>, <<>>)

\* what the record of the last call keeps of the state the call saw
Call(op, result) ==
    [shutdowns |-> shutdowns, op |-> op, life |-> Life, result |-> result]

NoteTrigger(t) == IF Life = "CONNECTED" /\ trigger = "none" THEN t ELSE trigger

\* terminate() without the is_running() test
terminate_shutdowns_unguarded == shutdowns + 1

\* the effect of Connection.terminate() on the loop and the callback count
terminate_loop == IF is_running THEN "stopping" ELSE loop
terminate_shutdowns == IF is_running THEN shutdowns + 1 ELSE shutdowns

\* Connection.run() up to the point where the loop drives the connection
Run ==
    /\ loop # "stopped"
    /\ loop' = IF is_running THEN loop ELSE "running"
    /\ lastcall' = Call("run", IF is_running THEN "noop" ELSE "started")
    /\ UNCHANGED <<transport, shutdowns, initiated, received, dispatched,
                   written, dispatch_failed, trigger>>
    /\ UNCHANGED <<late_dispatch, procvars>>

\* create_connection fails: run_until_complete raises out of run()
ConnectFailed ==
    /\ loop = "running" /\ transport = "unset"
    /\ loop' = "stopped"
    /\ lastcall' = Call("run", "failed")
    /\ UNCHANGED <<transport, shutdowns, initiated, received, dispatched,
                   written, dispatch_failed, trigger>>
    /\ UNCHANGED <<late_dispatch, procvars>>

connection_made ==
    /\ loop = "running" /\ transport = "unset"
    /\ transport' = "open"
    /\ initiated' = initiated + 1
    /\ lastcall' = Call("connection_made", "ok")
    /\ UNCHANGED <<loop, shutdowns, received, dispatched, written,
                   dispatch_failed, trigger>>
    /\ UNCHANGED <<late_dispatch, procvars>>

terminate ==
    /\ terminate_shutdowns <= MaxShutdowns
    /\ loop' = terminate_loop
    /\ shutdowns' = terminate_shutdowns
    /\ trigger' = NoteTrigger("terminate")
    /\ lastcall' = Call("terminate", IF is_running THEN "shutdown" ELSE "noop")
    /\ UNCHANGED <<transport, initiated, received, dispatched, written,
                   dispatch_failed>>
    /\ UNCHANGED <<late_dispatch, procvars>>

\* data_received(data); the dispatch of line number raiseAt raises (0: none)
\* and the handler of line number termAt calls terminate() (0: none)
data_received ==
    \E data \in Blocks :
    \E lines \in {splitlines(decode(data))} :
    \E raiseAt \in 0..Len(lines) :
    \E handed \in {IF raiseAt = 0 THEN Len(lines) ELSE raiseAt} :
    \E termAt \in 0..handed :
        /\ is_running /\ transport = "open"
        /\ Len(received) + Len(data) <= MaxStream
        /\ raiseAt > 0 => terminate_shutdowns <= MaxShutdowns
        /\ termAt > 0 =>
               (IF raiseAt > 0 THEN terminate_shutdowns ELSE shutdowns) < MaxShutdowns
        /\ received' = received \o data
        /\ dispatched' = dispatched \o SubSeq(lines, 1, handed)
        /\ dispatch_failed' = (dispatch_failed \/ raiseAt > 0)
        /\ loop' = IF termAt > 0 \/ raiseAt > 0 THEN terminate_loop ELSE loop
        /\ shutdowns' = (IF raiseAt > 0 THEN terminate_shutdowns ELSE shutdowns)
                         + (IF termAt > 0 THEN 1 ELSE 0)
        /\ trigger' = IF termAt > 0 THEN NoteTrigger("terminate")
                      ELSE IF raiseAt > 0 THEN NoteTrigger("exception")
                      ELSE trigger
        /\ lastcall' = Call("data_received", IF raiseAt > 0 THEN "raised" ELSE "ok")
        /\ late_dispatch' = \/ late_dispatch
                            \/ (shutdowns > 0 /\ handed > 0)
                            \/ (termAt > 0 /\ termAt < handed)
        /\ UNCHANGED <<transport, initiated, written>>
        /\ UNCHANGED procvars

eof_received ==
    /\ is_running /\ transport = "open"
    /\ terminate_shutdowns <= MaxShutdowns
    /\ transport' = "eof"
    /\ loop' = terminate_loop
    /\ shutdowns' = terminate_shutdowns
    /\ trigger' = NoteTrigger("eof")
    /\ lastcall' = Call("eof_received", "ok")
    /\ UNCHANGED <<initiated, received, dispatched, written, dispatch_failed>>
    /\ UNCHANGED <<late_dispatch, procvars>>

\* the transport reports the connection lost: asyncio calls
\* connection_lost(exc), which Connection inherits from asyncio.Protocol
\* (the class defines connect_lost, a name asyncio never calls)
connection_lost ==
    /\ is_running /\ transport \in {"open", "eof"}
    /\ transport' = "lost"
    /\ trigger' = NoteTrigger("lost")
    /\ lastcall' = Call("connection_lost", "ok")
    /\ UNCHANGED <<loop, shutdowns, initiated, received, dispatched, written,
                   dispatch_failed>>
    /\ UNCHANGED <<late_dispatch, procvars>>

Messages == {<<"a">>}

send_message ==
    \E message \in Messages :
        /\ Len(written) < MaxSends
        /\ IF is_running
           THEN IF transport = "unset"
                THEN /\ lastcall' = Call("send_message", "AttributeError")
                     /\ UNCHANGED written
                ELSE /\ written' = Append(written, encode(message \o <<"CR", "LF">>))
                     /\ lastcall' = Call("send_message", "ok")
           ELSE /\ lastcall' = Call("send_message", "NotConnectedError")
                /\ UNCHANGED written
        /\ UNCHANGED <<loop, transport, shutdowns, initiated, received,
                       dispatched, dispatch_failed, trigger>>
        /\ UNCHANGED <<late_dispatch, procvars>>

\* the loop honours stop(): run_forever, and with it run(), returns
LoopStops ==
    /\ loop = "stopping"
    /\ loop' = "stopped"
    /\ UNCHANGED <<transport, shutdowns, initiated, received, dispatched,
                   written, dispatch_failed, trigger, lastcall>>
    /\ UNCHANGED <<late_dispatch, procvars>>

ConnNext ==
    \/ Run
    \/ ConnectFailed
    \/ connection_made
    \/ terminate
    \/ data_received
    \/ eof_received
    \/ connection_lost
    \/ send_message
    \/ LoopStops

ConnSpec == Init /\ [][ConnNext]_vars

\* the event loop returns once it has been asked to stop
FairConnSpec == ConnSpec /\ WF_vars(LoopStops)


\* ================================================================ claims

\* C1: after every processed message every channel name in operator_in and
\* every channel name in has_voice_in is a key of state.channels.
FlagsWithinChannels ==
    /\ ListElems(operator_in) \subseteq DOMAIN channels
    /\ ListElems(has_voice_in) \subseteq DOMAIN channels

\* C2: no channel name is at the same time a key of the pending table and a
\* key of state.channels.
PendingDisjointFromChannels ==
    (DOMAIN pending) \cap (DOMAIN channels) = {}

\* C2 witness: an occupied channel next to a pending one
OccupiedAndPending ==
    /\ "#a" \in DOMAIN channels
    /\ DOMAIN pending # {}

\* C3: the shutdown callback is invoked at most once for one Connection,
\* whatever the sequence of shutdown triggers.
ShutdownAtMostOnce == shutdowns <= 1

\* C4: once the shutdown callback has fired, every send_message call fails
\* with NotConnectedError and writes nothing.
SendAfterShutdownFails ==
    (lastcall.op = "send_message" /\ lastcall.shutdowns > 0)
        => lastcall.result = "NotConnectedError"

\* C5: send_message called in IDLE or CONNECTING fails with
\* NotConnectedError, with no other error, and writes nothing.
SendBeforeConnectedFails ==
    (lastcall.op = "send_message" /\ lastcall.life \in {"IDLE", "CONNECTING"})
        => lastcall.result = "NotConnectedError"

\* C6: each shutdown trigger delivered while CONNECTED eventually brings the
\* connection to TERMINATED with the shutdown callback invoked.
TriggerLeadsToTerminated ==
    (trigger # "none") ~> (Life = "TERMINATED" /\ shutdowns > 0)

\* C7 as stated: terminate() on a connection that never reached CONNECTED
\* (IDLE or CONNECTING) changes no lifecycle state and invokes no shutdown
\* callback.
TerminateBeforeConnectedIsNoop ==
    [][(lastcall'.op = "terminate" /\ Life \in {"IDLE", "CONNECTING"})
        => (loop' = loop /\ transport' = transport /\ shutdowns' = shutdowns)]_vars

\* C7 amended: terminate() before start (IDLE, the event loop not running)
\* changes no lifecycle state and invokes no shutdown callback; in
\* CONNECTING, where run() already drives the loop, it asks the loop to stop
\* and invokes the shutdown callback once.
TerminateIsNoopOnlyInIdle ==
    [][/\ (lastcall'.op = "terminate" /\ Life = "IDLE")
            => (loop' = loop /\ transport' = transport /\ shutdowns' = shutdowns)
       /\ (lastcall'.op = "terminate" /\ Life = "CONNECTING")
            => (loop' = "stopping" /\ transport' = transport
                /\ shutdowns' = shutdowns + 1)]_vars

\* C7 witness: terminate() has been called on an idle connection
TerminatedWhileIdle ==
    /\ lastcall.op = "terminate" /\ lastcall.life = "IDLE"
    /\ loop = "idle" /\ shutdowns = 0

\* the lines of a text that end in a line break
RECURSIVE complete_from(_, _, _)
complete_from(text, cur, lines) ==
    IF text = <<>> THEN lines
    ELSE IF Head(text) = "LF" THEN complete_from(Tail(text), <<>>, Append(lines, cur))
    ELSE complete_from(Tail(text), Append(cur, Head(text)), lines)

\* C8: for any split of the byte stream into blocks the lines handed to the
\* dispatch callback are the terminator-delimited lines of the whole stream.
DispatchedAreStreamLines ==
    ~dispatch_failed => dispatched = complete_from(decode(received), <<>>, <<>>)

\* C9: process returns normally for every tokenizable line in every
\* reachable client state; no exception propagates out of process.
ProcessNeverRaises == raised = "none"

\* C10: self-JOIN for a channel c that is neither pending nor occupied, then
\* NAMREPLY fragments for c, then ENDOFNAMES for c: c is a key of
\* state.channels with exactly the union of the fragments' nicks, c is not
\* pending, and exactly one own-join event was fired for c.
HandshakeCompletes ==
    \A c \in ChanNames :
        (StartsWithChannelPrefix(c) /\ hs[c].phase = "done") =>
            /\ c \in DOMAIN channels
            /\ channels[c] = hs[c].nicks
            /\ c \notin DOMAIN pending
            /\ hs[c].own_joins = 1

\* C10 witness: a handshake of two fragments that together name both nicks
HandshakeOfTwoFragments ==
    /\ hs["#a"].phase = "done"
    /\ hs["#a"].frags = 2
    /\ hs["#a"].nicks = {"me", "bob"}

\* C11: a PRIVMSG with two parameters from a sender other than the client
\* fires one private-message event per target equal to the client's nick,
\* one channel-message event per target that is a key of state.channels, and
\* nothing for any other target; a PRIVMSG sent by the client's own nick
\* fires no event.
PrivmsgEvents ==
    (last.command = "PRIVMSG" /\ Len(last.params) = 2) =>
        LET sender == last.prefix.nick
            ts == last.params[1]
            text == last.params[2]
            own == {i \in 1..Len(ts) : ts[i] = nick}
            occupied == {i \in 1..Len(ts) : ts[i] \in DOMAIN channels}
            private == {i \in 1..Len(events) :
                          events[i] = <<"handle_private_message", text, sender>>}
            channel == {i \in 1..Len(events) :
                          /\ events[i][1] = "handle_channel_message"
                          /\ events[i][2] \in DOMAIN channels
                          /\ events[i][2] \in ListElems(ts)
                          /\ events[i][3] = text /\ events[i][4] = sender}
        IN  /\ raised = "none"
            /\ sender = nick => events = <<>>
            /\ (sender # nick /\ sender # NoNick) =>
                   /\ private \cup channel = 1..Len(events)
                   /\ Cardinality(private) = Cardinality(own)
                   /\ Cardinality(channel) = Cardinality(occupied)

\* C11 witness: a PRIVMSG to the client and to an occupied channel
PrivmsgToNickAndChannel ==
    /\ last.command = "PRIVMSG" /\ Len(last.params) = 2
    /\ last.params[1] = <<"me", "#a">> /\ last.prefix.nick = "bob"
    /\ nick = "me" /\ "#a" \in DOMAIN channels
    /\ Len(events) = 2

\* the words of a list of parameters, in order, collected from the end
RECURSIVE WordsOf(_)
WordsOf(ps) ==
    IF ps = <<>> THEN <<>> ELSE WordsOf(SubSeq(ps, 1, Len(ps) - 1)) \o ps[Len(ps)]

\* the keyword arguments the error callback is to receive for schema names
\* and parameters rest (the message parameters after the target)
ExpectedKwargs(names, rest, kwargs) ==
    /\ DOMAIN kwargs = {names[i] : i \in 1..Len(names)}
    /\ Len(rest) = Len(names) => \A i \in 1..Len(names) : kwargs[names[i]] = rest[i]
    /\ Len(rest) # Len(names) =>
           \A i \in 1..Len(names) :
               kwargs[names[i]] = IF names[i] = "message" THEN WordsOf(rest) ELSE <<>>

\* C12: a numeric error with a known parameter schema fires the error
\* callback exactly once with one keyword per schema name: the parameters
\* after the target in order when their count matches the schema, otherwise
\* every key empty except "message", which holds all of them joined; the
\* client state is unchanged.
NumericErrorKwargs ==
    [][(last'.command \in {"421", "433"}) =>
          LET names == IF last'.command = "433" THEN <<"nick", "message">>
                       ELSE <<"command", "message">>
              rest == SubSeq(last'.params, 2, Len(last'.params))
          IN  /\ raised' = "none"
              /\ Len(events') = 1
              /\ events'[1][1] = "handle_error"
              /\ events'[1][2] = ToInt(last'.command)
              /\ ExpectedKwargs(names, rest, events'[1][3])
              /\ UNCHANGED <<nick, registered, server, channels, operator_in,
                             has_voice_in, pending>>]_vars

\* C12 witness: three parameters after the target against a schema of two
NumericErrorMismatch ==
    /\ last.command = "433" /\ Len(last.params) = 4
    /\ Len(events) = 1
    /\ events[1][3]["message"] = <<"bob", "in", "use">>
    /\ events[1][3]["nick"] = <<>>

\* C13: whenever the client is registered its nick is non-empty.
RegisteredHasNick == registered => nick # NoNick

\* lines occur in into, in the same order
RECURSIVE Embeds(_, _)
Embeds(lines, into) ==
    IF lines = <<>> THEN TRUE
    ELSE IF into = <<>> THEN FALSE
    ELSE IF Head(lines) = Head(into) THEN Embeds(Tail(lines), Tail(into))
    ELSE Embeds(lines, Tail(into))

\* the lines of a list from the first one holding a replacement character
FromFirstMalformed(lines) ==
    LET bad == {i \in 1..Len(lines) : "REPL" \in ListElems(lines[i])}
    IN  IF bad = {} THEN <<>>
        ELSE SubSeq(lines, CHOOSE i \in bad : \A j \in bad : i <= j, Len(lines))

\* C14: a line that contains malformed bytes is dispatched with the bytes
\* replaced, and every line that follows it in the stream, in the same or in
\* a later block, is dispatched in the order received.
MalformedLineAndFollowersDispatched ==
    ~dispatch_failed =>
        Embeds(FromFirstMalformed(complete_from(decode(received), <<>>, <<>>)),
               dispatched)

\* the message is a MODE message whose target is a channel
IsChannelMode(m) ==
    /\ m.command = "MODE" /\ Len(m.params) > 0
    /\ parse_message_target(m.params[1]).channel # ""

\* the message is a MODE message whose target is a user
IsUserMode(m) ==
    /\ m.command = "MODE" /\ Len(m.params) > 0
    /\ parse_message_target(m.params[1]).channel = ""

GotLostEvents ==
    {"handle_own_got_op", "handle_got_op", "handle_own_lost_op", "handle_lost_op",
     "handle_own_got_voice", "handle_got_voice", "handle_own_lost_voice",
     "handle_lost_voice"}

Unhandled == <<"handle_unhandled_message">>

IsEndOfNames(m, c) ==
    m.command = "366" /\ Len(m.params) >= 2 /\ m.params[2] = c

\* C16: a channel c becomes a key of state.channels, and an own-join event
\* for c fires, only in the step that processes ENDOFNAMES for c while c is
\* pending, and that step consumes the pending entry and fires the event
\* once; a self-JOIN fires no Handler event; c becomes pending only by a
\* self-JOIN for c, so every own-join event is preceded by a self-JOIN that
\* no earlier own-join event has consumed.
OwnJoinOnlyAtEndOfNames ==
    [][\A c \in ChanNames :
          /\ (c \in DOMAIN channels' \ DOMAIN channels \/ OwnJoins(events', c) > 0) =>
                 /\ IsEndOfNames(last', c)
                 /\ c \in DOMAIN pending /\ c \notin DOMAIN pending'
                 /\ c \in DOMAIN channels' \ DOMAIN channels
                 /\ OwnJoins(events', c) = 1
          /\ IsSelfJoin(last', c) => events' = <<>>
          /\ c \in DOMAIN pending' \ DOMAIN pending => IsSelfJoin(last', c)]_vars

\* C16 witness: ENDOFNAMES has promoted a channel and fired its own-join event
OwnJoinAtEndOfNames ==
    /\ IsEndOfNames(last, "#a")
    /\ "#a" \in DOMAIN channels /\ "#a" \notin DOMAIN pending
    /\ OwnJoins(events, "#a") = 1

ShortKickIgnored ==
    [][(last'.command = "KICK" /\ Len(last'.params) < 2) =>
          /\ raised' = "none"
          /\ events' = <<>>
          /\ UNCHANGED <<channels, operator_in, has_voice_in, pending, nick>>]_vars

\* C18 witness: a KICK naming only the occupied channel was processed
ShortKickInOccupiedChannel ==
    /\ last.command = "KICK" /\ last.params = <<"#a">>
    /\ "#a" \in DOMAIN channels /\ nick \in channels["#a"]
    /\ events = <<>> /\ raised = "none"

\* C19: once the shutdown callback has fired, no further line is handed to
\* the message-dispatch callback, neither from the block being dispatched
\* nor from a block delivered afterwards.
NoDispatchAfterShutdown == ~late_dispatch

\* C20: after an own-part or own-kick event has fired for channel c, c is not
\* a key of state.channels until a new self-JOIN for c has been processed,
\* also when the PART or KICK arrived while c was still pending.
PartedStaysOut == \A c \in parted : c \notin DOMAIN channels

====
